---- MODULE Spec2Model ----
(***************************************************************************)
(* Model of main.py of slomo_camera: one ProcessingWorker that waits for   *)
(* camera data on a shared drive, stages and converts the raw frames,      *)
(* writes the ffmpeg concat manifest from the timestamp log, runs the      *)
(* encoder and tidies up.                                                  *)
(*                                                                         *)
(* File names are sequences of their dot-separated segments, so that       *)
(* endswith() and the f-string that appends ".mp4" are computed:           *)
(* "tstamps.csv" is <<"tstamps", "csv">>.                                  *)
(***************************************************************************)
EXTENDS Integers, Sequences, FiniteSets, TLC

VARIABLES
    exists,       \* the drive letters for which os.path.exists("<d>://") holds
    drive,        \* self.drive
    pc,           \* the statement the worker is at
    error,        \* the exception that ended the run, "none" while it runs
    srcFiles,     \* names of the files at the root of the shared drive
    tempExists,   \* whether the temp folder exists
    tempFiles,    \* names of the files directly inside the temp folder
    tempGen,      \* how many times the temp folder has been created
    calls,        \* how many times the clearing step (lines 63-67) has run
    file_list,    \* move_and_convert_to_tiff: os.listdir of the drive
    todo,         \* files of file_list the loop has still to visit
    raw,          \* the local raw: the handle bound last, Unset before
    openHandles,  \* rawpy handles that are open
    log,          \* the rows csv_reader yielded from tstamps.csv
    manifest,     \* what has been written to ffmpeg_concats.txt in temp
    dts,          \* write_durations: the list dts
    line_count,   \* write_durations: line_count, Unbound before the loop
    process,      \* create_video: the encoder's exit status, Unbound before
    outExists     \* whether a file named outname exists in the working dir

vars == <<exists, drive, pc, error, srcFiles, tempExists, tempFiles, tempGen,
          calls, file_list, todo, raw, openHandles, log, manifest, dts,
          line_count, process, outExists>>

\* ---------------------------------------------------------------- bounds

\* Longest timestamp log read (rows, the baseline row included).
MaxRows == 3
\* Capture clock readings are drawn from 0..MaxStamp.
MaxStamp == 1
\* The clearing step is called at most this often in SpecPrepare.
MaxCalls == 2

\* ----------------------------------------------------- program constants

\* slowx, line 153
slowx == 30
\* the divisor of line 117
Million == 1000000

\* A local name that has not been assigned (an integer-valued local).
Unbound == -1
\* The local raw before any rawpy.imread (a file name is never empty).
Unset == <<>>

\* oname, line 155
outname == <<"test_01", "mp4">>

Marker == <<"tstamps", "csv">>
ManifestName == <<"ffmpeg_concats", "txt">>
Raw0 == <<"out", "000000", "raw", "all">>
Raw1 == <<"out", "000005", "raw", "all">>

\* The names a file at the root of the shared drive can have.
SourceNames == {Marker, Raw0, Raw1, outname}

\* The drive letters test_drive probes.
Drives == {"W", "Y", "X"}

\* The encoder's exit statuses.
ExitCodes == {0, 1}

\* Frame ordinals of the log (column 1): not contiguous.
SeqIndices == {0, 5}

Rows == [seq : SeqIndices, micros : 0..MaxStamp]

Logs == UNION {[1..n -> Rows] : n \in 0..MaxRows}

\* ---------------------------------------------------------- file names

\* filename.endswith("." + ext)
EndsWith(name, ext) == Len(name) >= 2 /\ name[Len(name)] = ext

\* f"{newpath[:-8]}.tiff" for a name that ends in ".raw.all" (8 characters)
TiffName(name) == SubSeq(name, 1, Len(name) - 2) \o <<"tiff">>

\* The names a file inside the temp folder can have.
TempNames ==
    {Marker, Raw0, TiffName(Raw0), Raw1, ManifestName, <<"old", "tiff">>}

\* -------------------------------------------------------- test_drive

\* test_drive with the X probe ahead of the Y probe.
test_drive_x_first(ex) ==
    IF "W" \in ex THEN "W"
    ELSE IF "X" \in ex THEN "X"
    ELSE IF "Y" \in ex THEN "Y"
    ELSE "WindowsError"

test_drive(ex) ==
    IF "W" \in ex THEN "W"
    ELSE IF "Y" \in ex THEN "Y"
    ELSE IF "X" \in ex THEN "X"
    ELSE "WindowsError"

\* ProcessingWorker.__init__: self.drive = test_drive()
Construct ==
    /\ pc = "construct" /\ error = "none"
    /\ LET dr == test_drive(exists) IN
         IF dr = "WindowsError"
         THEN /\ error' = "WindowsError"
              /\ UNCHANGED <<drive, pc>>
         ELSE /\ drive' = dr
              /\ pc' = "watch"
              /\ UNCHANGED error
    /\ UNCHANGED <<exists, srcFiles, tempExists, tempFiles, tempGen, calls,
                   file_list, todo, raw, openHandles, log, manifest, dts,
                   line_count, process, outExists>>

\* The camera writes a file to the shared drive while the worker waits
\* (line 59: "Wait for files to appear in shared folder").
CameraWrite(f) ==
    /\ pc \in {"watch", "sleep"} /\ error = "none"
    /\ f \notin srcFiles
    /\ srcFiles' = srcFiles \cup {f}
    /\ UNCHANGED <<exists, drive, pc, error, tempExists, tempFiles, tempGen,
                   calls, file_list, todo, raw, openHandles, log, manifest,
                   dts, line_count, process, outExists>>

\* ------------------------------------------------- watch_and_clear

\* watch_and_clear without the wait: the loop is left at once.
WatchNoWait ==
    /\ pc = "watch" /\ error = "none"
    /\ pc' = "clear"
    /\ UNCHANGED <<exists, drive, error, srcFiles, tempExists, tempFiles,
                   tempGen, calls, file_list, todo, raw, openHandles, log,
                   manifest, dts, line_count, process, outExists>>

\* Line 59: one evaluation of the loop condition.
WatchPoll ==
    /\ pc = "watch" /\ error = "none"
    /\ pc' = IF Marker \in srcFiles THEN "clear" ELSE "sleep"
    /\ UNCHANGED <<exists, drive, error, srcFiles, tempExists, tempFiles,
                   tempGen, calls, file_list, todo, raw, openHandles, log,
                   manifest, dts, line_count, process, outExists>>

\* Line 60: time.sleep(1), then the condition again.
WatchSleep ==
    /\ pc = "sleep" /\ error = "none"
    /\ pc' = "watch"
    /\ UNCHANGED <<exists, drive, error, srcFiles, tempExists, tempFiles,
                   tempGen, calls, file_list, todo, raw, openHandles, log,
                   manifest, dts, line_count, process, outExists>>

\* os.listdir(path) of a folder that holds the files fs
listdir(fs) == fs

\* The clearing step as shutil.rmtree followed by os.makedirs.
rmtree_and_makedirs(d) ==
    [exists |-> TRUE, files |-> {}, gen |-> d.gen + 1]

\* Lines 63-67 on a folder d = [exists, files, gen]: os.makedirs creates it;
\* when that raises because it exists, every file listed is removed.
makedirs_or_clear(d) ==
    IF ~d.exists
    THEN [exists |-> TRUE, files |-> {}, gen |-> d.gen + 1]
    ELSE [exists |-> TRUE,
          files  |-> d.files \ {f \in listdir(d.files) : TRUE},
          gen    |-> d.gen]

TempDir == [exists |-> tempExists, files |-> tempFiles, gen |-> tempGen]

\* Lines 63-67 applied to the temp folder; a manifest in it goes with
\* the other files.
ClearStep ==
    /\ LET d == makedirs_or_clear(TempDir) IN
         /\ tempExists' = d.exists
         /\ tempFiles' = d.files
         /\ tempGen' = d.gen
    /\ calls' = calls + 1
    /\ manifest' = <<>>
    /\ UNCHANGED <<exists, drive, error, srcFiles, file_list, todo, raw,
                   openHandles, log, dts, line_count, process, outExists>>

\* Lines 62-67 of watch_and_clear, after the loop.
ClearTemp ==
    /\ pc = "clear" /\ error = "none"
    /\ ClearStep
    /\ pc' = "list"

\* Lines 63-67 called on their own, the worker staying where it is.
ClearCall ==
    /\ pc = "clear" /\ error = "none"
    /\ calls < MaxCalls
    /\ ClearStep
    /\ UNCHANGED pc

\* Another program puts a file into the temp folder between two calls.
TempWrite(f) ==
    /\ pc = "clear" /\ error = "none"
    /\ calls >= 1
    /\ tempExists
    /\ f \notin tempFiles
    /\ tempFiles' = tempFiles \cup {f}
    /\ UNCHANGED <<exists, drive, pc, error, srcFiles, tempExists, tempGen,
                   calls, file_list, todo, raw, openHandles, log, manifest,
                   dts, line_count, process, outExists>>

\* ---------------------------------------- move_and_convert_to_tiff

\* Lines 76-77: file_list = os.listdir(drive)
MoveList ==
    /\ pc = "list" /\ error = "none"
    /\ file_list' = listdir(srcFiles)
    /\ todo' = listdir(srcFiles)
    /\ pc' = "loop"
    /\ UNCHANGED <<exists, drive, error, srcFiles, tempExists, tempFiles,
                   tempGen, calls, raw, openHandles, log, manifest, dts,
                   line_count, process, outExists>>

\* raw = rawpy.imread(newpath): the handle of f is opened and bound to raw.
\* The handle raw was bound to before loses its last reference and is
\* finalised (CPython counts references), which closes it.
imread(handles, old, f) == (handles \ {old}) \cup {f}

\* Lines 78-86: one iteration of the loop, on any file not yet visited
\* (os.listdir gives no order). decoded: whether rawpy can read the file.
MoveStep(f, decoded) ==
    /\ pc = "loop" /\ error = "none"
    /\ f \in todo
    /\ todo' = todo \ {f}
    /\ IF EndsWith(f, "all") \/ EndsWith(f, "csv")
       THEN IF EndsWith(f, "all")
            THEN IF decoded
                 THEN /\ tempFiles' = tempFiles \cup {f, TiffName(f)}
                      /\ raw' = f
                      /\ openHandles' = imread(openHandles, raw, f)
                      /\ UNCHANGED error
                 ELSE /\ tempFiles' = tempFiles \cup {f}
                      /\ error' = "LibRawError"
                      /\ UNCHANGED <<raw, openHandles>>
            ELSE /\ tempFiles' = tempFiles \cup {f}
                 /\ decoded
                 /\ UNCHANGED <<raw, openHandles, error>>
       ELSE /\ decoded
            /\ UNCHANGED <<tempFiles, raw, openHandles, error>>
    /\ UNCHANGED <<exists, drive, pc, srcFiles, tempExists, tempGen, calls,
                   file_list, log, manifest, dts, line_count, process,
                   outExists>>

\* move_and_convert_to_tiff without line 87.
MoveNoClose ==
    /\ pc = "loop" /\ error = "none"
    /\ todo = {}
    /\ pc' = "write_durations"
    /\ UNCHANGED <<exists, drive, error, srcFiles, tempExists, tempFiles,
                   tempGen, calls, file_list, todo, raw, openHandles, log,
                   manifest, dts, line_count, process, outExists>>

\* Line 87: raw.close(), after the loop.
MoveClose ==
    /\ pc = "loop" /\ error = "none"
    /\ todo = {}
    /\ IF raw = Unset
       THEN /\ error' = "UnboundLocalError"
            /\ UNCHANGED <<pc, openHandles>>
       ELSE /\ openHandles' = openHandles \ {raw}
            /\ pc' = "write_durations"
            /\ UNCHANGED error
    /\ UNCHANGED <<exists, drive, srcFiles, tempExists, tempFiles, tempGen,
                   calls, file_list, todo, raw, log, manifest, dts,
                   line_count, process, outExists>>

\* ------------------------------------------------- write_durations

NL == [kind |-> "nl"]

\* Line 115: fr"file '{temp_folder}\out.{int(row[1]):06d}.tiff'"
FileText(row) == [kind |-> "file", index |-> row.seq]

Abs(n) == IF n < 0 THEN -n ELSE n

\* Line 117: f"duration {slowdown * dt / 1000000:08f}": the sign, the digits
\* before the point and the six digits after it.
DurationText(slowdown, dt) ==
    LET n == slowdown * dt IN
    [kind  |-> "duration",
     neg   |-> n < 0,
     whole |-> Abs(n) \div Million,
     frac  |-> Abs(n) % Million]

\* Lines 114-117 without the write of line 116.
write_row_no_newline(st, row, slowdown, dt) ==
    [st EXCEPT !.dts = Append(@, dt),
               !.txt = @ \o <<FileText(row)>>
                         \o <<DurationText(slowdown, dt), NL>>]

\* Lines 114-117: dts.append(dt) and the three writes to txt_file.
write_row(st, row, slowdown, dt) ==
    [st EXCEPT !.dts = Append(@, dt),
               !.txt = @ \o <<FileText(row)>> \o <<NL>>
                         \o <<DurationText(slowdown, dt), NL>>]

\* Lines 110-118: the loop from row i on. st = [last, dts, txt, line_count]
\* are last_microsecond, dts, the text written so far and line_count.
RECURSIVE DurationLoop(_, _, _, _)
DurationLoop(rows, i, slowdown, st) ==
    IF i > Len(rows) THEN st
    ELSE
      LET current_microsecond == rows[i].micros
          dt == current_microsecond - st.last
          written == IF i - 1 > 0
                     THEN write_row(st, rows[i], slowdown, dt)
                     ELSE st
      IN DurationLoop(rows, i + 1, slowdown,
                      [written EXCEPT !.last = current_microsecond,
                                      !.line_count = i - 1])

\* Lines 105-106 and the loop.
durations(rows, slowdown) ==
    DurationLoop(rows, 1, slowdown,
                 [last |-> 0, dts |-> <<>>, txt |-> <<>>,
                  line_count |-> Unbound])

RECURSIVE sum(_)
sum(s) == IF s = <<>> THEN 0 ELSE Head(s) + sum(Tail(s))

\* Line 121 and print_stats: the exception raised, "none" when it returns.
\* line_count is read at line 121; sum(dts) / len(dts) at line 125;
\* 1 / avg_dt at line 128, where avg_dt is 0.0 exactly when the sum is 0.
print_stats(ds, lc) ==
    IF lc = Unbound THEN "UnboundLocalError"
    ELSE IF Len(ds) = 0 THEN "ZeroDivisionError"
    ELSE IF sum(ds) = 0 THEN "ZeroDivisionError"
    ELSE "none"

\* write_durations(tempdir, self.slowx), on the rows of temp\tstamps.csv.
\* What the camera put in the file is first looked at here.
WriteDurations(rows) ==
    /\ pc = "write_durations" /\ error = "none"
    /\ LET st == durations(rows, slowx) IN
         /\ log' = rows
         /\ dts' = st.dts
         /\ manifest' = st.txt
         /\ line_count' = st.line_count
         /\ tempFiles' = tempFiles \cup {ManifestName}
         /\ error' = print_stats(st.dts, st.line_count)
         /\ pc' = IF print_stats(st.dts, st.line_count) = "none"
                  THEN "create_video" ELSE pc
    /\ UNCHANGED <<exists, drive, srcFiles, tempExists, tempGen, calls,
                   file_list, todo, raw, openHandles, process, outExists>>

\* ---------------------------------------------------- create_video

\* create_video with subprocess.run(command, check=True).
CreateVideoChecked(rc, wrote) ==
    /\ pc = "create_video" /\ error = "none"
    /\ rc = 0 => wrote
    /\ process' = rc
    /\ outExists' = (outExists \/ wrote)
    /\ IF rc = 0
       THEN pc' = "startfile" /\ UNCHANGED error
       ELSE error' = "CalledProcessError" /\ UNCHANGED pc
    /\ UNCHANGED <<exists, drive, srcFiles, tempExists, tempFiles,
                   tempGen, calls, file_list, todo, raw, openHandles, log,
                   manifest, dts, line_count>>

\* Line 149: subprocess.run(command): the encoder ends with status rc and
\* has written the output (wrote) or not; the status is not looked at.
CreateVideo(rc, wrote) ==
    /\ pc = "create_video" /\ error = "none"
    /\ rc = 0 => wrote
    /\ process' = rc
    /\ outExists' = (outExists \/ wrote)
    /\ pc' = "startfile"
    /\ UNCHANGED <<exists, drive, error, srcFiles, tempExists, tempFiles,
                   tempGen, calls, file_list, todo, raw, openHandles, log,
                   manifest, dts, line_count>>

\* Line 52: os.startfile(self.outname), which raises when there is no file.
StartFile ==
    /\ pc = "startfile" /\ error = "none"
    /\ IF outExists
       THEN pc' = "tidy_up" /\ UNCHANGED error
       ELSE error' = "FileNotFoundError" /\ UNCHANGED pc
    /\ UNCHANGED <<exists, drive, srcFiles, tempExists, tempFiles, tempGen,
                   calls, file_list, todo, raw, openHandles, log, manifest,
                   dts, line_count, process, outExists>>

\* -------------------------------------------------------- tidy_up

\* f is not g, for g the string an f-string has just built: a new object,
\* which no name from os.listdir is.
IsNot(f, g) == TRUE

\* Line 96: the files of the drive that pass the filter.
filelist(files, name) ==
    {f \in listdir(files) : IsNot(f, name \o <<"mp4">>)}

\* Lines 95-99: the temp folder is removed, then each file of filelist.
TidyUp ==
    /\ pc = "tidy_up" /\ error = "none"
    /\ tempExists' = FALSE
    /\ tempFiles' = {}
    /\ manifest' = <<>>
    /\ srcFiles' = srcFiles \ filelist(srcFiles, outname)
    /\ pc' = "done"
    /\ UNCHANGED <<exists, drive, error, tempGen, calls, file_list, todo,
                   raw, openHandles, log, dts, line_count, process,
                   outExists>>

\* The state after the module is loaded and __main__ has set its
\* parameters, whatever the drive and the temp folder hold; a temp folder
\* that exists has been created once.
InitRest ==
    /\ drive = "unset"
    /\ pc = "construct"
    /\ error = "none"
    /\ srcFiles \in SUBSET SourceNames
    /\ tempExists \in BOOLEAN
    /\ tempFiles \in SUBSET {ManifestName, <<"old", "tiff">>}
    /\ (~tempExists => tempFiles = {})
    /\ tempGen = (IF tempExists THEN 1 ELSE 0)
    /\ calls = 0
    /\ file_list = {}
    /\ todo = {}
    /\ raw = Unset
    /\ openHandles = {}
    /\ log = <<>>
    /\ manifest = <<>>
    /\ dts = <<>>
    /\ line_count = Unbound
    /\ process = Unbound
    /\ outExists = FALSE

\* A run with no share mounted or with one of them (ethernet, hotspot or
\* home wifi).
Init ==
    /\ exists \in {ex \in SUBSET Drives : Cardinality(ex) <= 1}
    /\ InitRest

Next ==
    \/ Construct
    \/ \E f \in SourceNames : CameraWrite(f)
    \/ WatchPoll
    \/ WatchSleep
    \/ ClearTemp
    \/ MoveList
    \/ \E f \in SourceNames, decoded \in BOOLEAN : MoveStep(f, decoded)
    \/ MoveClose
    \/ \E rows \in Logs : WriteDurations(rows)
    \/ \E rc \in ExitCodes, wrote \in BOOLEAN : CreateVideo(rc, wrote)
    \/ StartFile
    \/ TidyUp

Spec == Init /\ [][Next]_vars

\* ------------------------------------------- the clearing step alone

\* The clearing step of watch_and_clear called repeatedly on one folder,
\* which holds any files before the first call.
InitPrepare ==
    /\ exists = {"W"}
    /\ drive = "W"
    /\ pc = "clear"
    /\ error = "none"
    /\ srcFiles = {Marker}
    /\ tempExists \in BOOLEAN
    /\ tempFiles \in SUBSET TempNames
    /\ (~tempExists => tempFiles = {})
    /\ tempGen = (IF tempExists THEN 1 ELSE 0)
    /\ calls = 0
    /\ file_list = {}
    /\ todo = {}
    /\ raw = Unset
    /\ openHandles = {}
    /\ log = <<>>
    /\ manifest = <<>>
    /\ dts = <<>>
    /\ line_count = Unbound
    /\ process = Unbound
    /\ outExists = FALSE

NextPrepare ==
    \/ ClearCall
    \/ \E f \in TempNames : TempWrite(f)

SpecPrepare == InitPrepare /\ [][NextPrepare]_vars

\* ------------------------------------------------ construction alone

\* The worker is constructed with any of the shares mounted.
InitLocate ==
    /\ exists \in SUBSET Drives
    /\ InitRest

NextLocate == Construct

SpecLocate == InitLocate /\ [][NextLocate]_vars

\* ================================================================ claims

\* write_durations has run: it returned, or print_stats raised in it.
WriteRan ==
    \/ pc \in {"create_video", "startfile", "tidy_up"}
    \/ pc = "write_durations" /\ error # "none"

\* The data rows of the log read: all rows but the baseline.
DataRows == IF Len(log) = 0 THEN 0 ELSE Len(log) - 1

\* The lines of a text: the runs of tokens each newline ends, and what
\* follows the last newline when that is not empty.
RECURSIVE SplitLines(_, _)
SplitLines(txt, cur) ==
    IF txt = <<>> THEN (IF cur = <<>> THEN <<>> ELSE <<cur>>)
    ELSE IF Head(txt).kind = "nl"
         THEN <<cur>> \o SplitLines(Tail(txt), <<>>)
         ELSE SplitLines(Tail(txt), Append(cur, Head(txt)))

Lines(txt) == SplitLines(txt, <<>>)

\* The number of microseconds a duration line stands for.
DisplayMicros(tok) ==
    (IF tok.neg THEN -1 ELSE 1) * (tok.whole * Million + tok.frac)

\* The manifest holds 2*N one-token lines, file line then duration line.
ManifestPaired ==
    LET ls == Lines(manifest) IN
    /\ Len(ls) = 2 * DataRows
    /\ \A i \in 1..DataRows :
         /\ Len(ls[2 * i - 1]) = 1 /\ ls[2 * i - 1][1].kind = "file"
         /\ Len(ls[2 * i]) = 1 /\ ls[2 * i][1].kind = "duration"

\* Record i is data row i: its frame index, its delta to the row just
\* before it, and slowx * delta microseconds of display.
RecordsRight ==
    LET ls == Lines(manifest) IN
    /\ ManifestPaired
    /\ Len(dts) = DataRows
    /\ \A i \in 1..DataRows :
         /\ ls[2 * i - 1][1].index = log[i + 1].seq
         /\ dts[i] = log[i + 1].micros - log[i].micros
         /\ DisplayMicros(ls[2 * i][1]) = slowx * dts[i]

\* C1: for every log with N >= 1 data rows write_durations produces N
\* records in row order, record i with the sequence index of data row i,
\* the delta to the row just before it and slowx * delta / 1,000,000
\* seconds of display, zero and negative deltas included, without an error.
C1_DurationsWithoutError ==
    (WriteRan /\ DataRows >= 1) => (RecordsRight /\ error = "none")

\* What holds of the records in every run, whether or not the statistics
\* that follow them raise.
C1_RecordsRight == (WriteRan /\ DataRows >= 1) => RecordsRight

\* C2: the manifest has exactly 2*N lines for N data rows, each file line
\* followed at once by the duration line of the same row, in row order,
\* none for the baseline row and no file line left without its duration.
C2_ManifestAlternates ==
    WriteRan =>
      LET ls == Lines(manifest) IN
      /\ ManifestPaired
      /\ \A i \in 1..DataRows :
           /\ ls[2 * i - 1][1].index = log[i + 1].seq
           /\ DisplayMicros(ls[2 * i][1])
                = slowx * (log[i + 1].micros - log[i].micros)
      /\ (manifest # <<>> => manifest[Len(manifest)].kind = "nl")
      /\ (Len(manifest) >= 2 =>
            manifest[Len(manifest) - 1].kind = "duration")

C2_Witness ==
    /\ WriteRan
    /\ DataRows = 2
    /\ log[2].seq = 5 /\ log[3].seq = 0
    /\ Len(Lines(manifest)) = 4

\* The order in which the candidates are preferred.
Priority == <<"W", "Y", "X">>

FirstReachable(d) ==
    \E i \in 1..Len(Priority) :
      /\ Priority[i] = d
      /\ d \in exists
      /\ \A j \in 1..(i - 1) : Priority[j] \notin exists

\* C3: test_drive returns the first reachable candidate in the order W, Y,
\* X, and raises instead of returning a drive when none is reachable.
C3_FirstReachableDrive ==
    /\ pc # "construct" => FirstReachable(drive)
    /\ exists = {} =>
         (pc = "construct" /\ drive = "unset"
            /\ error \in {"none", "WindowsError"})
    /\ error = "WindowsError" => exists = {}

C3_Witness == pc # "construct" /\ exists = {"Y", "X"} /\ drive = "Y"

\* C4: a log of one row or none gives no duration record and ends the
\* request for statistics in EmptyLogError.
C4_EmptyLogError ==
    (WriteRan /\ Len(log) <= 1) =>
      (Len(dts) = 0 /\ manifest = <<>> /\ error = "EmptyLogError")

\* The steps that follow the wait, up to the removal of the drive's files.
AfterWait ==
    {"clear", "list", "loop", "write_durations", "create_video",
     "startfile", "tidy_up"}

\* What the steps after the wait write.
laterVars ==
    <<tempExists, tempFiles, tempGen, calls, file_list, todo, raw,
      openHandles, log, manifest, dts, line_count, process, outExists>>

\* C5: the wait of watch_and_clear is left only when tstamps.csv is on the
\* drive, every later step runs with it there, nothing of the later steps
\* is done during the wait, and the worker waits on while it is absent.
C5_WaitsForMarker ==
    /\ [](pc \in AfterWait => Marker \in srcFiles)
    /\ [][(pc \in {"watch", "sleep"} /\ pc' \notin {"watch", "sleep"})
            => (Marker \in srcFiles /\ pc' = "clear")]_vars
    /\ [][(pc \in {"watch", "sleep"} /\ Marker \notin srcFiles)
            => pc' \in {"watch", "sleep"}]_vars
    /\ [][(pc \in {"watch", "sleep"}) => UNCHANGED laterVars]_vars

C5_Witness == pc = "clear" /\ Marker \in srcFiles /\ calls = 0

\* C6: each call of the clearing step leaves the folder existing and
\* empty, the first and the second, whatever files it held; a folder that
\* existed is the same folder afterwards, not one created anew.
C6_PrepareIdempotent ==
    [][(calls' = calls + 1)
         => /\ tempExists' /\ tempFiles' = {}
            /\ (tempExists => tempGen' = tempGen)]_vars

C6_Witness == calls = 2 /\ tempExists /\ tempFiles = {} /\ tempGen = 1

\* C7: tidy_up removes every file of the drive whose name is not outname
\* and leaves a file named outname where it is.
C7_DrainKeepsOutput ==
    [][(pc = "tidy_up" /\ pc' = "done")
         => \A f \in srcFiles :
              IF f = outname THEN f \in srcFiles' ELSE f \notin srcFiles']_vars

\* C8: with no .all file on the drive move_and_convert_to_tiff closes no
\* handle that was never set and returns, the run going on to
\* write_durations.
C8_NoRawFilesCompletes ==
    [][(pc = "loop" /\ error = "none" /\ todo = {}
          /\ ~\E f \in file_list : EndsWith(f, "all"))
         => (pc' = "write_durations" /\ error' = "none")]_vars

\* C9: when tidy_up starts, and from then on, the handle raw was bound to
\* last has been closed and no handle opened while staging is open.
C9_HandleReleasedBeforeCleanup ==
    pc \in {"tidy_up", "done"} =>
      (raw # Unset /\ raw \notin openHandles /\ openHandles = {})

C9_Witness ==
    pc = "tidy_up" /\ Raw0 \in tempFiles /\ Raw1 \in tempFiles

====
